---- MODULE Spec2Model ----
(***************************************************************************)
(* The chat server of src/src/server.rs: one handler task per accepted     *)
(* connection (Server::handle), the shared ServerState behind one tokio    *)
(* Mutex (peers, history), one unbounded mpsc queue per peer, and the      *)
(* merged event stream RecvPeer::poll_next.                                *)
(*                                                                         *)
(* A handler is modelled at its suspension points: waiting for the lock,   *)
(* waiting for peer.next(), waiting for a transport write.  What runs      *)
(* between two suspension points is one action.                            *)
(***************************************************************************)
EXTENDS Naturals, Sequences, FiniteSets

\* ------------------------------------------------------------------ bounds
NumAddr == 2        \* connections accepted over the run (one address each)
MaxLines == 3       \* lines the clients send, all together
MaxDrops == 1       \* connections the client side closes or resets

Addr == 1..NumAddr
UserNames == {"al", "bo"}        \* non-empty names a client may ask for
Texts == {"hi"}                  \* message contents a client may send
ServerDisplayName == "srv"       \* ServerState.name

VARIABLES
    pc,        \* pc[a]: where handler a is suspended
    name,      \* name[a]: the handler's local `name`
    cur,       \* cur[a]: the event peer.next() returned last
    peers,     \* ServerState.peers: address -> username
    history,   \* ServerState.history
    queue,     \* queue[a]: contents of a's mpsc channel (tx in peers, rx in RecvPeer)
    lock,      \* holder of the state Mutex across a suspension, 0 when free
    inbox,     \* inbox[a]: lines (and read errors) the transport has not yielded yet
    conn,      \* conn[a]: "open", or "closed" once the client side is gone
    wire,      \* wire[a]: server commands written to a's transport
    nsent      \* lines the clients have sent so far

vars == <<pc, name, cur, peers, history, queue, lock, inbox, conn, wire, nsent>>

\* ------------------------------------------------------------ data model
\* ClientCommand, as the line a client puts on the wire.
SetNameLine(n) == <<"SetName", n>>
SendMessageLine(m) == <<"SendMessage", m>>
MalformedLine == <<"Malformed">>     \* a text line that is no ClientCommand
BadUtf8Line == <<"BadUtf8">>         \* bytes LinesCodec cannot frame as UTF-8
IoErrorItem == <<"IoError">>         \* the read error of a reset connection

ClientLines ==
    {SetNameLine(n) : n \in UserNames \cup {""}}
        \cup {SendMessageLine(m) : m \in Texts}
        \cup {MalformedLine, BadUtf8Line}

\* Operation
FromClient(c) == <<"FromClient", c>>
FromPeer(u, m) == <<"FromPeer", u, m>>
FromServer(c) == <<"FromServer", c>>
ErrEvent(kind) == <<"Err", kind>>
Closed == <<"Closed">>
Pending == <<"Pending">>
NoEvent == <<"NoEvent">>

\* ServerCommand
UserMessage(u, m) == <<"UserMessage", u, m>>
ServerMessage(t) == <<"ServerMessage", t>>
UserList(us) == <<"UserList", us>>
ErrorCmd(t) == <<"Error", t>>
ServerName(s) == <<"ServerName", s>>

WelcomeText(n) == "Welcome, " \o n \o "!"
LeftText(n) == n \o " left."
WhatsThat == "What's that?"

\* ---------------------------------------------------------- RecvPeer
\* The receiving half of a's channel lives in RecvPeer, from register to the
\* return of handle.
RxOpen(a) == pc[a] \notin {"idle", "register", "done", "failed"}

\* What the Framed transport yields for the head of the inbox.
Decode(line) ==
    CASE line[1] = "IoError" -> ErrEvent("NetworkError")
      [] line[1] = "BadUtf8" -> ErrEvent("CodecError")
      [] line[1] = "Malformed" -> ErrEvent("SerdeError")
      [] OTHER -> FromClient(line)

\* A poll that serves the transport before the queue.
PollNextNetFirst(a) ==
    IF inbox[a] # <<>> THEN Decode(Head(inbox[a]))
    ELSE IF queue[a] # <<>> THEN Head(queue[a])
    ELSE IF conn[a] = "closed" THEN Closed
    ELSE Pending

\* A poll that reports the end of the stream before it looks at the queue.
PollNextClosedFirst(a) ==
    IF conn[a] = "closed" /\ inbox[a] = <<>> THEN Closed
    ELSE IF queue[a] # <<>> THEN Head(queue[a])
    ELSE IF inbox[a] # <<>> THEN Decode(Head(inbox[a]))
    ELSE Pending

\* RecvPeer::poll_next: the queue first, then the transport.
PollNext(a) ==
    IF queue[a] # <<>> THEN Head(queue[a])
    ELSE IF inbox[a] # <<>> THEN Decode(Head(inbox[a]))
    ELSE IF conn[a] = "closed" THEN Closed
    ELSE Pending

\* ---------------------------------------------------------- ServerState
\* A broadcast that skips the peers that have no name yet.
BroadcastNamedOnly(q, ps, open, op, excludes) ==
    [p \in Addr |->
        IF p \in DOMAIN ps /\ p \notin excludes /\ p \in open /\ ps[p] # ""
        THEN Append(q[p], op) ELSE q[p]]

\* A broadcast that puts op at the head of the queues of all peers but the
\* first.
BroadcastFront(q, ps, open, op, excludes) ==
    [p \in Addr |->
        IF p \in DOMAIN ps /\ p \notin excludes /\ p \in open
        THEN (IF p = 1 THEN Append(q[p], op) ELSE <<op>> \o q[p])
        ELSE q[p]]

\* A broadcast that gives up at the first peer whose receiver is gone, the
\* peers being visited in the order of their addresses.
BroadcastStopOnClosed(q, ps, open, op, excludes) ==
    [p \in Addr |->
        IF /\ p \in DOMAIN ps /\ p \notin excludes /\ p \in open
           /\ \A d \in DOMAIN ps : d < p => d \in open
        THEN Append(q[p], op) ELSE q[p]]

\* A broadcast whose notices from the server skip the peers with no name.
BroadcastNoticesToNamed(q, ps, open, op, excludes) ==
    [p \in Addr |->
        IF /\ p \in DOMAIN ps /\ p \notin excludes /\ p \in open
           /\ (op[1] = "FromServer" => ps[p] # "")
        THEN Append(q[p], op) ELSE q[p]]

\* ServerState::broadcast: push op to every peer not excluded; a push to a
\* channel whose receiver is gone fails and is ignored.
Broadcast(q, ps, open, op, excludes) ==
    [p \in Addr |->
        IF p \in DOMAIN ps /\ p \notin excludes /\ p \in open
        THEN Append(q[p], op) ELSE q[p]]

\* The pairs of all the peers, with no filter on the name.
NamedUsersAll(ps) == {<<ps[p], p>> : p \in DOMAIN ps}

\* The (username, addr) pairs of the named peers.
NamedUsers(ps) == {<<ps[p], p>> : p \in {x \in DOMAIN ps : ps[x] # ""}}

\* ServerState::broadcast_user_list
BroadcastUserList(q, ps, open) ==
    Broadcast(q, ps, open, FromServer(UserList(NamedUsers(ps))), {})

OpenRx == {p \in Addr : RxOpen(p)}

\* ------------------------------------------------------------- Init
Init ==
    /\ pc = [a \in Addr |-> "idle"]
    /\ name = [a \in Addr |-> ""]
    /\ cur = [a \in Addr |-> NoEvent]
    /\ peers = <<>>
    /\ history = <<>>
    /\ queue = [a \in Addr |-> <<>>]
    /\ lock = 0
    /\ inbox = [a \in Addr |-> <<>>]
    /\ conn = [a \in Addr |-> "open"]
    /\ wire = [a \in Addr |-> <<>>]
    /\ nsent = 0

\* ------------------------------------------------------ the environment
\* Server::run accepts a connection and spawns its handler; addresses are
\* numbered in the order of accept.
Accept(a) ==
    /\ pc[a] = "idle"
    /\ \A b \in 1..(a - 1) : pc[b] # "idle"
    /\ pc' = [pc EXCEPT ![a] = "register"]
    /\ UNCHANGED <<name, cur, peers, history, queue, lock, inbox, conn, wire, nsent>>

\* The connections whose client side is gone.
Dropped == {a \in Addr : conn[a] = "closed"}

\* The client of a writes one line to its connection.
ClientSend(a, line) ==
    /\ pc[a] # "idle"
    /\ conn[a] = "open"
    /\ nsent < MaxLines
    /\ nsent' = nsent + 1
    /\ inbox' = [inbox EXCEPT ![a] = Append(@, line)]
    /\ UNCHANGED <<pc, name, cur, peers, history, queue, lock, conn, wire>>

\* The client of a closes its connection: the transport reaches end-of-stream.
ClientClose(a) ==
    /\ pc[a] # "idle"
    /\ conn[a] = "open"
    /\ Cardinality(Dropped) < MaxDrops
    /\ conn' = [conn EXCEPT ![a] = "closed"]
    /\ UNCHANGED <<pc, name, cur, peers, history, queue, lock, inbox, wire, nsent>>

\* The connection of a is reset: the transport yields a read error, then ends.
ConnReset(a) ==
    /\ pc[a] # "idle"
    /\ conn[a] = "open"
    /\ Cardinality(Dropped) < MaxDrops
    /\ conn' = [conn EXCEPT ![a] = "closed"]
    /\ inbox' = [inbox EXCEPT ![a] = Append(@, IoErrorItem)]
    /\ UNCHANGED <<pc, name, cur, peers, history, queue, lock, wire, nsent>>

\* ------------------------------------------------------- Server::handle
\* A handler that goes to its loop with its send half not in the Registry.
RegisterNoInsert(a) ==
    /\ pc[a] = "register"
    /\ lock = 0
    /\ peers' = peers
    /\ pc' = [pc EXCEPT ![a] = "next"]
    /\ name' = [name EXCEPT ![a] = ""]
    /\ UNCHANGED <<cur, history, queue, lock, inbox, conn, wire, nsent>>

\* RecvPeer::register: insert the send half, with an empty username.
Register(a) ==
    /\ pc[a] = "register"
    /\ lock = 0
    /\ peers' = [p \in DOMAIN peers \cup {a} |-> IF p = a THEN "" ELSE peers[p]]
    /\ pc' = [pc EXCEPT ![a] = "next"]
    /\ name' = [name EXCEPT ![a] = ""]
    /\ UNCHANGED <<cur, history, queue, lock, inbox, conn, wire, nsent>>

\* Dispatch without the guard on an empty name.
DispatchNoGate(ev, nm) ==
    CASE ev[1] = "Closed" -> "release"
      [] ev[1] = "Err" -> "next"
      [] ev[1] = "FromPeer" -> "next"
      [] ev[1] = "FromServer" -> "next"
      [] ev[1] = "FromClient" ->
            IF ev[2][1] = "SetName"
            THEN (IF ev[2][2] = "" THEN "next" ELSE "lock_setname")
            ELSE "lock_sendmsg"

\* Dispatch with an Err event leaving the loop.
DispatchErrFatal(ev, nm) ==
    CASE ev[1] = "Closed" -> "release"
      [] ev[1] = "Err" -> "release"
      [] ev[1] = "FromPeer" -> "next"
      [] ev[1] = "FromServer" -> "next"
      [] ev[1] = "FromClient" ->
            IF ev[2][1] = "SetName"
            THEN (IF ev[2][2] = "" THEN "next" ELSE "lock_setname")
            ELSE IF nm = "" THEN "next"
            ELSE "lock_sendmsg"

\* Dispatch without the check for an empty new name.
DispatchNoEmptyCheck(ev, nm) ==
    CASE ev[1] = "Closed" -> "release"
      [] ev[1] = "Err" -> "next"
      [] ev[1] = "FromPeer" -> "next"
      [] ev[1] = "FromServer" -> "next"
      [] ev[1] = "FromClient" ->
            IF ev[2][1] = "SetName" THEN "lock_setname"
            ELSE IF nm = "" THEN "next"
            ELSE "lock_sendmsg"

\* The arm of the match in handle an event is sent to, as the suspension
\* point the handler reaches next.  The arms that only write to the transport
\* come back to the top of the loop.
Dispatch(ev, nm) ==
    CASE ev[1] = "Closed" -> "release"
      [] ev[1] = "Err" -> "next"
      [] ev[1] = "FromPeer" -> "next"
      [] ev[1] = "FromServer" -> "next"
      [] ev[1] = "FromClient" ->
            IF ev[2][1] = "SetName"
            THEN (IF ev[2][2] = "" THEN "next" ELSE "lock_setname")
            ELSE IF nm = "" THEN "next"
            ELSE "lock_sendmsg"

\* Whether the arm of an event writes to the transport with send!.
Writes(ev) == ev[1] \in {"Err", "FromPeer", "FromServer"}

\* ToCommand with the Err arm echoing the error, not the fixed text.
ToCommandEchoErr(ev) ==
    CASE ev[1] = "FromPeer" -> UserMessage(ev[2], ev[3])
      [] ev[1] = "FromServer" -> ev[2]
      [] ev[1] = "Err" -> ErrorCmd(ev[2])

\* ToCommand with the FromPeer arm leaving the sender's name out.
ToCommandNoSender(ev) ==
    CASE ev[1] = "FromPeer" -> UserMessage("", ev[3])
      [] ev[1] = "FromServer" -> ev[2]
      [] ev[1] = "Err" -> ErrorCmd(WhatsThat)

\* What the send! of an arm writes.
ToCommand(ev) ==
    CASE ev[1] = "FromPeer" -> UserMessage(ev[2], ev[3])
      [] ev[1] = "FromServer" -> ev[2]
      [] ev[1] = "Err" -> ErrorCmd(WhatsThat)

\* Whether a write to a's transport can fail: only once the client is gone.
CanFail(a) == conn[a] = "closed"

\* peer.next().await returns an event, taken from its source.
Take(a) ==
    /\ cur' = [cur EXCEPT ![a] = PollNext(a)]
    /\ IF queue[a] # <<>>
       THEN /\ queue' = [queue EXCEPT ![a] = Tail(@)]
            /\ inbox' = inbox
       ELSE /\ queue' = queue
            /\ inbox' = [inbox EXCEPT ![a] = IF @ # <<>> THEN Tail(@) ELSE @]

\* One turn of the loop up to its next suspension: the event is matched; the
\* FromClient arms go on to wait for the lock or `continue`, the FromPeer,
\* FromServer and Err arms write with send!, and Closed leaves the loop.
Recv(a) ==
    /\ pc[a] = "next"
    /\ PollNext(a) # Pending
    /\ Take(a)
    /\ pc' = [pc EXCEPT ![a] = Dispatch(PollNext(a), name[a])]
    /\ wire' = IF Writes(PollNext(a))
               THEN [wire EXCEPT ![a] = Append(@, ToCommand(PollNext(a)))]
               ELSE wire
    /\ UNCHANGED <<name, peers, history, lock, conn, nsent>>

\* The same turn when send! fails: `?` returns the error from handle, and the
\* RecvPeer, with what its queue holds, is dropped.
RecvSendFail(a) ==
    /\ pc[a] = "next"
    /\ PollNext(a) # Pending
    /\ Writes(PollNext(a))
    /\ CanFail(a)
    /\ cur' = [cur EXCEPT ![a] = PollNext(a)]
    /\ inbox' = [inbox EXCEPT ![a] = IF queue[a] = <<>> THEN Tail(@) ELSE @]
    /\ queue' = [queue EXCEPT ![a] = <<>>]
    /\ pc' = [pc EXCEPT ![a] = "failed"]
    /\ UNCHANGED <<name, peers, history, lock, conn, wire, nsent>>

\* The SetName arm with the welcome broadcast on a rename too.
SetNameWelcomeAgain(a) ==
    /\ pc[a] = "lock_setname"
    /\ lock = 0
    /\ LET n == cur[a][2][2]
           ps == IF a \in DOMAIN peers THEN [peers EXCEPT ![a] = n] ELSE peers
           qw == Broadcast(queue, ps, OpenRx,
                           FromServer(ServerMessage(WelcomeText(n))), {})
       IN /\ peers' = ps
          /\ IF name[a] = ""
             THEN /\ queue' = qw
                  /\ lock' = a
                  /\ pc' = [pc EXCEPT ![a] = "send_servername"]
                  /\ name' = name
             ELSE /\ queue' = BroadcastUserList(qw, ps, OpenRx)
                  /\ lock' = 0
                  /\ pc' = [pc EXCEPT ![a] = "next"]
                  /\ name' = [name EXCEPT ![a] = n]
    /\ UNCHANGED <<cur, history, inbox, conn, wire, nsent>>

\* The SetName arm with a rename that leaves the Registry record as it is.
SetNameLocalOnly(a) ==
    /\ pc[a] = "lock_setname"
    /\ lock = 0
    /\ LET n == cur[a][2][2]
           ps == IF a \in DOMAIN peers /\ name[a] = ""
                 THEN [peers EXCEPT ![a] = n] ELSE peers
       IN /\ peers' = ps
          /\ IF name[a] = ""
             THEN /\ queue' = Broadcast(queue, ps, OpenRx,
                                 FromServer(ServerMessage(WelcomeText(n))), {})
                  /\ lock' = a
                  /\ pc' = [pc EXCEPT ![a] = "send_servername"]
                  /\ name' = name
             ELSE /\ queue' = BroadcastUserList(queue, ps, OpenRx)
                  /\ lock' = 0
                  /\ pc' = [pc EXCEPT ![a] = "next"]
                  /\ name' = [name EXCEPT ![a] = n]
    /\ UNCHANGED <<cur, history, inbox, conn, wire, nsent>>

\* The SetName arm, from the lock to its first suspension: the username is
\* stored; a first naming broadcasts the welcome and starts writing the
\* server's name with the lock held, a rename broadcasts the user list.
SetName(a) ==
    /\ pc[a] = "lock_setname"
    /\ lock = 0
    /\ LET n == cur[a][2][2]
           ps == IF a \in DOMAIN peers THEN [peers EXCEPT ![a] = n] ELSE peers
       IN /\ peers' = ps
          /\ IF name[a] = ""
             THEN /\ queue' = Broadcast(queue, ps, OpenRx,
                                 FromServer(ServerMessage(WelcomeText(n))), {})
                  /\ lock' = a
                  /\ pc' = [pc EXCEPT ![a] = "send_servername"]
                  /\ name' = name
             ELSE /\ queue' = BroadcastUserList(queue, ps, OpenRx)
                  /\ lock' = 0
                  /\ pc' = [pc EXCEPT ![a] = "next"]
                  /\ name' = [name EXCEPT ![a] = n]
    /\ UNCHANGED <<cur, history, inbox, conn, wire, nsent>>

\* The server's name broadcast through the queues, not written to the
\* transport of the naming client.
ServerNameOkBroadcast(a) ==
    /\ pc[a] = "send_servername"
    /\ queue' = BroadcastUserList(
                    Broadcast(queue, peers, OpenRx,
                              FromServer(ServerName(ServerDisplayName)), {}),
                    peers, OpenRx)
    /\ lock' = 0
    /\ name' = [name EXCEPT ![a] = cur[a][2][2]]
    /\ pc' = [pc EXCEPT ![a] = "next"]
    /\ UNCHANGED <<cur, peers, history, inbox, conn, wire, nsent>>

\* The write of ServerName completes: the user list is broadcast, the lock
\* released and the local name set.
ServerNameOk(a) ==
    /\ pc[a] = "send_servername"
    /\ wire' = [wire EXCEPT ![a] = Append(@, ServerName(ServerDisplayName))]
    /\ queue' = BroadcastUserList(queue, peers, OpenRx)
    /\ lock' = 0
    /\ name' = [name EXCEPT ![a] = cur[a][2][2]]
    /\ pc' = [pc EXCEPT ![a] = "next"]
    /\ UNCHANGED <<cur, peers, history, inbox, conn, nsent>>

\* The write of ServerName fails: `?` returns from inside the critical
\* section; the guard and the RecvPeer are dropped.
ServerNameFail(a) ==
    /\ pc[a] = "send_servername"
    /\ CanFail(a)
    /\ lock' = 0
    /\ pc' = [pc EXCEPT ![a] = "failed"]
    /\ queue' = [queue EXCEPT ![a] = <<>>]
    /\ UNCHANGED <<name, cur, peers, history, inbox, conn, wire, nsent>>

\* A SendMessage broadcast that leaves the sender out.
SendExcludesSelf(a) == {a}

\* The peers a SendMessage broadcast leaves out.
SendExcludes(a) == {}

\* The SendMessage arm with the new entry put at the front of the history.
SendMessageFrontHistory(a) ==
    /\ pc[a] = "lock_sendmsg"
    /\ lock = 0
    /\ LET m == cur[a][2][2]
       IN /\ history' = << <<name[a], m>> >> \o history
          /\ queue' = Broadcast(queue, peers, OpenRx, FromPeer(name[a], m),
                                SendExcludes(a))
    /\ pc' = [pc EXCEPT ![a] = "next"]
    /\ UNCHANGED <<name, cur, peers, lock, inbox, conn, wire, nsent>>

\* The SendMessage arm: append to the history and broadcast FromPeer.
SendMessage(a) ==
    /\ pc[a] = "lock_sendmsg"
    /\ lock = 0
    /\ LET m == cur[a][2][2]
       IN /\ history' = Append(history, <<name[a], m>>)
          /\ queue' = Broadcast(queue, peers, OpenRx, FromPeer(name[a], m),
                                SendExcludes(a))
    /\ pc' = [pc EXCEPT ![a] = "next"]
    /\ UNCHANGED <<name, cur, peers, lock, inbox, conn, wire, nsent>>

\* Release with the user list broadcast before the leave message.
ReleaseListFirst(a) ==
    /\ pc[a] = "release"
    /\ lock = 0
    /\ LET ps == [p \in DOMAIN peers \ {a} |-> peers[p]]
           q1 == BroadcastUserList(queue, ps, OpenRx)
           q2 == Broadcast(q1, ps, OpenRx,
                           FromServer(ServerMessage(LeftText(name[a]))), {})
       IN /\ peers' = ps
          /\ queue' = [q2 EXCEPT ![a] = <<>>]
    /\ pc' = [pc EXCEPT ![a] = "done"]
    /\ UNCHANGED <<name, cur, history, lock, inbox, conn, wire, nsent>>

\* Release with the leave message kept for the sessions that had a name.
ReleaseNamedOnly(a) ==
    /\ pc[a] = "release"
    /\ lock = 0
    /\ LET ps == [p \in DOMAIN peers \ {a} |-> peers[p]]
           q1 == IF name[a] = "" THEN queue
                 ELSE Broadcast(queue, ps, OpenRx,
                                FromServer(ServerMessage(LeftText(name[a]))), {})
           q2 == BroadcastUserList(q1, ps, OpenRx)
       IN /\ peers' = ps
          /\ queue' = [q2 EXCEPT ![a] = <<>>]
    /\ pc' = [pc EXCEPT ![a] = "done"]
    /\ UNCHANGED <<name, cur, history, lock, inbox, conn, wire, nsent>>

\* Release resources: remove the peer, broadcast the leave message and the
\* user list; handle returns Ok and the RecvPeer is dropped.
Release(a) ==
    /\ pc[a] = "release"
    /\ lock = 0
    /\ LET ps == [p \in DOMAIN peers \ {a} |-> peers[p]]
           q1 == Broadcast(queue, ps, OpenRx,
                           FromServer(ServerMessage(LeftText(name[a]))), {})
           q2 == BroadcastUserList(q1, ps, OpenRx)
       IN /\ peers' = ps
          /\ queue' = [q2 EXCEPT ![a] = <<>>]
    /\ pc' = [pc EXCEPT ![a] = "done"]
    /\ UNCHANGED <<name, cur, history, lock, inbox, conn, wire, nsent>>

HandlerStep(a) ==
    \/ Register(a)
    \/ Recv(a)
    \/ RecvSendFail(a)
    \/ SetName(a)
    \/ ServerNameOk(a)
    \/ ServerNameFail(a)
    \/ SendMessage(a)
    \/ Release(a)

Next ==
    \/ \E a \in Addr : Accept(a)
    \/ \E a \in Addr, line \in ClientLines : ClientSend(a, line)
    \/ \E a \in Addr : ClientClose(a)
    \/ \E a \in Addr : ConnReset(a)
    \/ \E a \in Addr : HandlerStep(a)

Spec == Init /\ [][Next]_vars

\* Fairness: every handler task that can take a step is scheduled.
FairSpec == Spec /\ \A a \in Addr : WF_vars(HandlerStep(a))

\* --------------------------------------------------------------- steps
\* How a step of a handler shows in the state.
CountIn(s, x) == Cardinality({i \in 1..Len(s) : s[i] = x})
InSeq(s, x) == \E i \in 1..Len(s) : s[i] = x

\* Handler a takes the head of its transport.
TakesNet(a) ==
    /\ pc[a] = "next" /\ queue[a] = <<>> /\ inbox[a] # <<>>
    /\ inbox'[a] = Tail(inbox[a])

\* Handler a takes the head of its queue.
TakesQueue(a) ==
    /\ pc[a] = "next" /\ queue[a] # <<>>
    /\ (queue'[a] = Tail(queue[a]) \/ pc'[a] = "failed")

\* Handler a runs the critical section of its SendMessage arm.
SendStep(a) == pc[a] = "lock_sendmsg" /\ pc'[a] = "next"

\* Handler a returns from handle.
Ends(a) == pc[a] \notin {"done", "failed"} /\ pc'[a] \in {"done", "failed"}

\* The peers that are registered and whose queue still has its receiver.
Listening == {b \in DOMAIN peers : RxOpen(b)}

Delivered(b, u, m) ==
    CountIn(queue[b], FromPeer(u, m)) + CountIn(wire[b], UserMessage(u, m))

C3_NamingGate ==
    /\ [][\A a \in Addr :
            (TakesNet(a) /\ name[a] = "" /\ Head(inbox[a])[1] = "SendMessage") =>
                /\ pc'[a] = "next"
                /\ history' = history
                /\ peers' = peers
                /\ queue' = queue]_vars
    /\ [](\A i \in 1..Len(history) : history[i][1] # "")
    /\ [](\A b \in Addr : \A i \in 1..Len(queue[b]) :
            queue[b][i][1] = "FromPeer" => queue[b][i][2] # "")

\* An unnamed handler has just handled a SendMessage.
C3_Witness ==
    \E a \in Addr :
        /\ pc[a] = "next" /\ name[a] = ""
        /\ cur[a] = FromClient(SendMessageLine("hi"))
        /\ history = <<>>

\* ---------------------------------------------------------------- C4
\* C4 (as claimed): every handler that ends has run teardown: in the step in
\* which handle returns, the handler's record is removed from the Registry and
\* the leave message and a user list are pushed to the sessions that remain.
C4_TeardownOnEveryExit ==
    [][\A a \in Addr : Ends(a) =>
            /\ a \notin DOMAIN peers'
            /\ \A b \in Listening \ {a} :
                    /\ Len(queue'[b]) = Len(queue[b]) + 2
                    /\ queue'[b][Len(queue[b]) + 1] =
                            FromServer(ServerMessage(LeftText(name[a])))
                    /\ queue'[b][Len(queue[b]) + 2][2][1] = "UserList"]_vars

\* ---------------------------------------------------------------- C5
\* C5 (as claimed): the Registry holds a record for a exactly while a is
\* registered and its handler has not returned.
C5_RegistryIffLive ==
    \A a \in Addr : (a \in DOMAIN peers) <=> RxOpen(a)

\* ---------------------------------------------------------------- C6
\* C6 (as claimed): when the handler of a session named n ends, every session
\* still registered gets exactly one more ServerMessage("n left.").
C6_DepartureNotice ==
    [][\A a \in Addr : (Ends(a) /\ name[a] # "") =>
            \A b \in Listening \ {a} :
                CountIn(queue'[b], FromServer(ServerMessage(LeftText(name[a]))))
                    = CountIn(queue[b], FromServer(ServerMessage(LeftText(name[a]))))
                        + 1]_vars

\* ---------------------------------------------------------------- C7
\* No handler has a step to take.
Quiescent ==
    \A a \in Addr :
        \/ pc[a] \in {"idle", "done", "failed"}
        \/ pc[a] = "next" /\ PollNext(a) = Pending

UserListsOf(w) == {i \in 1..Len(w) : w[i][1] = "UserList"}
LastUserList(w) ==
    w[CHOOSE i \in UserListsOf(w) : \A j \in UserListsOf(w) : j <= i][2]

\* C7 (as claimed): once the system is quiescent, the last UserList written to
\* each connected session lists exactly the named records of the Registry.
C7_UserListConsistent ==
    Quiescent =>
        \A b \in Addr :
            (pc[b] = "next" /\ conn[b] = "open" /\ UserListsOf(wire[b]) # {}) =>
                LastUserList(wire[b]) = NamedUsers(peers)

\* ---------------------------------------------------------------- C8
\* C8: decode resilience.  While its connection is open, a handler that takes
\* an undecodable line is back at the top of its loop with its name and its
\* Registry record unchanged; and a SendMessage it handles in Named state is
\* appended to the history and pushed to the other registered sessions.
C8_DecodeResilience ==
    /\ [][\A a \in Addr :
            (TakesNet(a) /\ Head(inbox[a])[1] = "Malformed" /\ conn[a] = "open") =>
                /\ pc'[a] = "next"
                /\ name'[a] = name[a]
                /\ peers' = peers
                /\ a \in DOMAIN peers']_vars
    /\ [][\A a \in Addr : SendStep(a) =>
            /\ name[a] # ""
            /\ history' = Append(history, <<name[a], cur[a][2][2]>>)
            /\ \A b \in Listening \ {a} :
                    queue'[b] = Append(queue[b], FromPeer(name[a], cur[a][2][2]))]_vars

\* A Named session was answered Error for a malformed line, and the
\* SendMessage it sent afterwards is in the history.
C8_Witness ==
    \E a \in Addr :
        /\ pc[a] = "next" /\ name[a] # "" /\ a \in DOMAIN peers
        /\ \A b \in Addr \ {a} : name[b] = "" /\ pc[b] # "lock_setname"
        /\ InSeq(wire[a], ErrorCmd(WhatsThat))
        /\ cur[a] = FromClient(SendMessageLine("hi"))
        /\ history = << <<name[a], "hi">> >>

\* ---------------------------------------------------------------- C9
\* C9: a decode error is answered to the offending client only.  The step in
\* which handler a takes an undecodable line leaves the history, the Registry,
\* every queue and every other session's transport unchanged; when the write
\* succeeds, Error("What's that?") is the one command written to a's transport.
C9_DecodeErrorReply ==
    [][\A a \in Addr :
        (TakesNet(a) /\ Head(inbox[a])[1] = "Malformed") =>
            /\ history' = history
            /\ peers' = peers
            /\ queue' = queue
            /\ \A b \in Addr \ {a} : wire'[b] = wire[b]
            /\ pc'[a] = "failed" => wire'[a] = wire[a]
            /\ pc'[a] # "failed" =>
                    wire'[a] = Append(wire[a], ErrorCmd(WhatsThat))]_vars

\* A handler has just answered a decode error.
C9_Witness ==
    \E a \in Addr :
        /\ pc[a] = "next"
        /\ cur[a] = ErrEvent("SerdeError")
        /\ wire[a] # <<>>
        /\ wire[a][Len(wire[a])] = ErrorCmd(WhatsThat)

\* ---------------------------------------------------------------- C10
\* C10 (as claimed): a transport error is terminal: the handler that takes a
\* read or framing error from its transport leaves its loop for teardown.
C10_TransportErrorTerminal ==
    [][\A a \in Addr :
        (TakesNet(a) /\ Head(inbox[a])[1] \in {"IoError", "BadUtf8"}) =>
            pc'[a] = "release"]_vars

\* ---------------------------------------------------------------- C11
\* A conversation: the clients send only well-formed SetName and SendMessage
\* commands, one line more than MaxLines, and may close their connection.
ChatLines ==
    {SetNameLine(n) : n \in UserNames} \cup {SendMessageLine(m) : m \in Texts}

ChatSend(a, line) ==
    /\ pc[a] # "idle"
    /\ conn[a] = "open"
    /\ nsent < MaxLines + 1
    /\ nsent' = nsent + 1
    /\ inbox' = [inbox EXCEPT ![a] = Append(@, line)]
    /\ UNCHANGED <<pc, name, cur, peers, history, queue, lock, conn, wire>>

ChatNext ==
    \/ \E a \in Addr : Accept(a)
    \/ \E a \in Addr, line \in ChatLines : ChatSend(a, line)
    \/ \E a \in Addr : ClientClose(a)
    \/ \E a \in Addr : HandlerStep(a)

ChatSpec == Init /\ [][ChatNext]_vars

IsUserMessage(c) == c[1] = "UserMessage"
IsFromPeer(op) == op[1] = "FromPeer"

\* The (user, message) pairs of a sequence of UserMessage commands or FromPeer
\* events, in order.
PairsOf(s) == [i \in 1..Len(s) |-> <<s[i][2], s[i][3]>>]

\* The peer messages session b has been written, then those still queued for
\* it: the order in which b receives them.
Received(b) ==
    PairsOf(SelectSeq(wire[b], IsUserMessage))
        \o PairsOf(SelectSeq(queue[b], IsFromPeer))

IsSuffixOf(s, t) ==
    /\ Len(s) <= Len(t)
    /\ \A i \in 1..Len(s) : s[i] = t[Len(t) - Len(s) + i]

\* s is a run of consecutive elements of t.
IsRunOf(s, t) ==
    \E k \in 0..(Len(t) - Len(s)) : \A i \in 1..Len(s) : s[i] = t[k + i]

\* C11: single total order.  The history is written in the order in which
\* the senders' handlers hold the lock.  In every reachable state the peer
\* messages of a session whose handler is in its loop, written and queued, are
\* a suffix of the history (all of it from some point on, in its order), and
\* those written to a session whose handler has ended are a run of it: two
\* sessions never hold two messages in different orders, and no state shows a
\* broadcast pushed to one registered session and not yet to another.
C11_TotalOrder ==
    \A b \in Addr :
        IF RxOpen(b) THEN IsSuffixOf(Received(b), history)
        ELSE IsRunOf(Received(b), history)

\* Two sessions have each been written the two messages of two senders, in
\* the order of the history.
C11_Witness ==
    /\ Len(history) = 2
    /\ history[1] # history[2]
    /\ \A b \in Addr :
        /\ name[b] # ""
        /\ queue[b] = <<>>
        /\ PairsOf(SelectSeq(wire[b], IsUserMessage)) = history

\* ---------------------------------------------------------------- C12
\* The suspension points at which a handler waits for the lock.
LockWaiting == {"register", "lock_setname", "lock_sendmsg", "release"}

\* C12 (as claimed): no handler waits for a write to its transport while it
\* holds the Registry lock.
C12_NoWriteUnderLock ==
    \A a \in Addr : pc[a] = "send_servername" => lock # a

\* ---------------------------------------------------------------- C13
\* C13 (as claimed): a session whose write does not complete blocks nobody:
\* a handler waiting for the Registry lock can take it, whatever write
\* another session has pending.
C13_SlowClientBlocksNobody ==
    \A a \in Addr : \A b \in Addr \ {a} :
        (pc[a] = "send_servername" /\ pc[b] \in LockWaiting) =>
            ENABLED HandlerStep(b)


\* ---------------------------------------------------------------- C14
\* The suspension points of the SetName arm once the name is not empty.
InSetNameArm == {"lock_setname", "send_servername"}

\* C14: every handled non-empty SetName is followed by the user-list
\* broadcast for that change: when a handler leaves its SetName arm, the last
\* thing pushed onto the queue of every listening peer is the user list of the
\* Registry as it then is.
C14_UserListAfterSetName ==
    [][\A a \in Addr :
        (pc[a] \in InSetNameArm /\ pc'[a] \notin InSetNameArm) =>
            \A b \in Addr :
                (b \in DOMAIN peers' /\ b \in DOMAIN peers /\ RxOpen(b) /\ b # a) =>
                    /\ queue'[b] # <<>>
                    /\ queue'[b][Len(queue'[b])] =
                           FromServer(UserList(NamedUsers(peers')))
                    /\ Len(queue'[b]) > Len(queue[b])]_vars


\* ---------------------------------------------------------------- C15
\* Handler a runs the start of the critical section of its SetName arm.
SetNameStep(a) == pc[a] = "lock_setname" /\ pc'[a] # "lock_setname"

\* The welcome of name n, as the event pushed onto the queues.
WelcomeOf(n) == FromServer(ServerMessage(WelcomeText(n)))

\* C15: the welcome is broadcast once per session.  The SetName(n) step of a
\* session that has no name yet pushes Welcome(n), and nothing else, onto the
\* queue of every listening peer; the SetName(n) step of a session that has a
\* name sets its Registry name to n and pushes the user list, and no welcome,
\* onto those queues; no other step adds a welcome to any queue; and a
\* session that has a name never goes back to having none.
C15_WelcomeOnce ==
    /\ [][\A a \in Addr : SetNameStep(a) =>
            /\ peers'[a] = cur[a][2][2]
            /\ \A b \in Addr :
                queue'[b] =
                    IF b \notin Listening THEN queue[b]
                    ELSE IF name[a] = ""
                    THEN Append(queue[b], WelcomeOf(cur[a][2][2]))
                    ELSE Append(queue[b],
                                FromServer(UserList(NamedUsers(peers'))))]_vars
    /\ [][\A b \in Addr : \A n \in UserNames :
            CountIn(queue'[b], WelcomeOf(n)) > CountIn(queue[b], WelcomeOf(n)) =>
                \E a \in Addr :
                    SetNameStep(a) /\ name[a] = "" /\ cur[a][2][2] = n]_vars
    /\ [][\A a \in Addr : name[a] # "" => name'[a] # ""]_vars

\* A session named "al" and renamed "bo" has been written one welcome, the
\* one of "al", and the user list of its rename.
C15_Witness ==
    \E a \in Addr :
        /\ a \in DOMAIN peers /\ name[a] = "bo" /\ peers[a] = "bo"
        /\ queue[a] = <<>> /\ wire[a] # <<>>
        /\ CountIn(wire[a], ServerMessage(WelcomeText("al"))) = 1
        /\ CountIn(wire[a], ServerMessage(WelcomeText("bo"))) = 0
        /\ wire[a][Len(wire[a])] = UserList(NamedUsers(peers))
        /\ \A b \in Addr \ {a} : name[b] = "" /\ pc[b] \notin InSetNameArm


\* ---------------------------------------------------------------- C16
\* How many times the server's name has been written to session a.
ServerNamesWritten(a) == CountIn(wire[a], ServerName(ServerDisplayName))

\* C16: the server's display name goes to the naming client only, at its
\* first naming only.  No queue ever holds a ServerName command; a session
\* has been written the server's name once if it has a name and never if it
\* has none (so a rename writes none); and the only step that writes it is the
\* one that completes the first naming of that very session, which appends it
\* to that session's transport.
C16_ServerNameToNamerOnly ==
    /\ [](\A b \in Addr : \A i \in 1..Len(queue[b]) :
            queue[b][i][1] = "FromServer" => queue[b][i][2][1] # "ServerName")
    /\ [](\A a \in Addr :
            ServerNamesWritten(a) = IF name[a] # "" THEN 1 ELSE 0)
    /\ [][\A b \in Addr :
            ServerNamesWritten(b)' # ServerNamesWritten(b) =>
                /\ pc[b] = "send_servername" /\ pc'[b] = "next"
                /\ name[b] = ""
                /\ wire'[b] = Append(wire[b], ServerName(ServerDisplayName))
                /\ \A c \in Addr \ {b} : wire'[c] = wire[c]]_vars

\* A session named and then renamed has been written the server's name once,
\* and a session beside it, written the welcome and the user list of the
\* rename, has never been written it.
C16_Witness ==
    \E a \in Addr : \E b \in Addr \ {a} :
        /\ name[a] = "bo" /\ ServerNamesWritten(a) = 1
        /\ wire[a][1] = ServerName(ServerDisplayName)
        /\ name[b] = "" /\ b \in Listening
        /\ InSeq(wire[b], ServerMessage(WelcomeText("al")))
        /\ InSeq(wire[b], UserList({<<"bo", a>>}))
        /\ ServerNamesWritten(b) = 0


\* ---------------------------------------------------------------- C17
\* C17: SetName with an empty name is a no-op.  The step in which a handler
\* takes SetName("") from its transport leaves the handler at the top of its
\* loop and changes neither a local name, nor the Registry, nor the history,
\* nor a queue, nor the lock, and writes nothing to any transport.
C17_EmptySetNameNoOp ==
    [][\A a \in Addr :
        (TakesNet(a) /\ Head(inbox[a]) = SetNameLine("")) =>
            /\ pc' = pc
            /\ UNCHANGED <<name, peers, history, queue, lock, wire>>]_vars

\* A session named "al" has handled SetName("") and is still "al", with
\* nothing written or queued since its naming.
C17_Witness ==
    \E a \in Addr :
        /\ cur[a] = FromClient(SetNameLine(""))
        /\ pc[a] = "next"
        /\ a \in DOMAIN peers /\ peers[a] = "al" /\ name[a] = "al"
        /\ queue[a] = <<>>
        /\ wire[a] = <<ServerName(ServerDisplayName),
                       ServerMessage(WelcomeText("al")),
                       UserList({<<"al", a>>})>>


\* ---------------------------------------------------------------- C18
\* The last element of a sequence that is not empty.
Last(s) == s[Len(s)]

\* A step pushes a UserList onto the queue of b, as the last thing it pushes.
GainsUserList(b) ==
    /\ Len(queue'[b]) > Len(queue[b])
    /\ Last(queue'[b])[1] = "FromServer"
    /\ Last(queue'[b])[2][1] = "UserList"

\* C18: a UserList is a snapshot of the Registry taken under the lock.  In
\* the step that pushes a UserList onto a queue, each of its entries is the
\* (name, address) of a record of the Registry as that step leaves it, with a
\* name that is not empty; every record with a name has its entry; no address
\* has two entries; and the same UserList is pushed, last, onto the queue of
\* every registered peer whose queue has its receiver.
C18_UserListSnapshot ==
    [][\A b \in Addr : GainsUserList(b) =>
        LET us == Last(queue'[b])[2][2]
        IN /\ \A e \in us : /\ e[1] # ""
                            /\ e[2] \in DOMAIN peers'
                            /\ peers'[e[2]] = e[1]
           /\ \A p \in DOMAIN peers' : peers'[p] # "" => <<peers'[p], p>> \in us
           /\ \A e \in us : \A f \in us : e[2] = f[2] => e = f
           /\ \A c \in DOMAIN peers' :
                RxOpen(c) => /\ Len(queue'[c]) > Len(queue[c])
                             /\ Last(queue'[c]) = Last(queue'[b])]_vars

\* Of two registered sessions one is named and the other is not: the user
\* list just pushed onto both queues has the entry of the named one only.
C18_Witness ==
    \E a \in Addr : \E b \in Addr \ {a} :
        /\ a \in Listening /\ b \in Listening
        /\ peers[a] = "al" /\ peers[b] = ""
        /\ queue[a] # <<>> /\ queue[b] # <<>>
        /\ Last(queue[a]) = FromServer(UserList({<<"al", a>>}))
        /\ Last(queue[b]) = Last(queue[a])


\* ---------------------------------------------------------------- C19
\* Handler a runs its teardown.
ReleaseStep(a) == pc[a] = "release" /\ pc'[a] = "done"

\* The texts of the leave messages.
LeftTexts == {LeftText(n) : n \in UserNames \cup {""}}

\* c is a leave message, as written to a transport.
IsLeft(c) == c[1] = "ServerMessage" /\ c[2] \in LeftTexts

\* C19: teardown ordering.  The teardown of session a removes a's record and
\* pushes onto the queue of every remaining listening session the message
\* "{a's name} left." and then, right behind it, a UserList with no entry for
\* a's address; a's own queue is pushed nothing, then or later, and nothing
\* is written to a.  What a session is written keeps that order: a leave
\* message on its transport is followed at once by a UserList, or that
\* UserList is the head of its queue, or its handler has returned.
C19_TeardownOrder ==
    /\ [][\A a \in Addr : ReleaseStep(a) =>
            /\ a \notin DOMAIN peers'
            /\ queue'[a] = <<>> /\ wire'[a] = wire[a]
            /\ \A b \in Listening \ {a} :
                \E us \in SUBSET ((UserNames \cup {""}) \X (Addr \ {a})) :
                    queue'[b] = queue[b] \o
                        <<FromServer(ServerMessage(LeftText(name[a]))),
                          FromServer(UserList(us))>>]_vars
    /\ [](\A a \in Addr : pc[a] = "done" => queue[a] = <<>> /\ a \notin DOMAIN peers)
    /\ [](\A b \in Addr : \A i \in 1..Len(wire[b]) :
            IsLeft(wire[b][i]) =>
                IF i < Len(wire[b]) THEN wire[b][i + 1][1] = "UserList"
                ELSE \/ pc[b] \in {"done", "failed"}
                     \/ /\ queue[b] # <<>>
                        /\ Head(queue[b])[1] = "FromServer"
                        /\ Head(queue[b])[2][1] = "UserList")

\* Session "bo" has left: the last things written to session "al" are
\* "bo left." and a UserList with the entry of "al" alone.
C19_Witness ==
    \E a \in Addr : \E b \in Addr \ {a} :
        /\ pc[a] = "done" /\ name[a] = "bo"
        /\ b \in Listening /\ name[b] = "al"
        /\ Len(wire[b]) >= 2
        /\ wire[b][Len(wire[b]) - 1] = ServerMessage(LeftText("bo"))
        /\ wire[b][Len(wire[b])] = UserList({<<"al", b>>})
        /\ ~ InSeq(wire[a], ServerMessage(LeftText("bo")))


\* ---------------------------------------------------------------- C20
\* A step pushes FromPeer(u, m) onto the queue of b.
GainsFromPeer(b, u, m) ==
    /\ Len(queue'[b]) > Len(queue[b])
    /\ queue'[b][Len(queue'[b])] = FromPeer(u, m)

\* C20: the history is append-only and matches the broadcasts.  The step
\* that handles SendMessage(m) for Named session a appends the one entry
\* (a's current name, m) to the history, keeping what was there in place, and
\* in that same step pushes FromPeer(a's name, m) onto the queue of every
\* listening peer, with the Registry, the names and the lock untouched; no
\* other step changes the history; and a FromPeer(u, m) is pushed onto a
\* queue only in the step that appends (u, m) to the history.
C20_HistoryAppendOnly ==
    /\ [][\A a \in Addr : SendStep(a) =>
            /\ name[a] # ""
            /\ cur[a] = FromClient(SendMessageLine(cur[a][2][2]))
            /\ history' = Append(history, <<name[a], cur[a][2][2]>>)
            /\ \A b \in Listening : GainsFromPeer(b, name[a], cur[a][2][2])
            /\ UNCHANGED <<peers, name, lock>>]_vars
    /\ [][history' # history => \E a \in Addr : SendStep(a)]_vars
    /\ [][\A b \in Addr : \A u \in UserNames \cup {""} : \A m \in Texts :
            GainsFromPeer(b, u, m) =>
                /\ history' = Append(history, <<u, m>>)
                /\ \A i \in 1..Len(history) : history'[i] = history[i]]_vars

\* One session has sent as "al", renamed itself "bo" and sent again: the
\* history holds the two entries in that order, each under the name the
\* sender had then, and the sender has been written both.
C20_Witness ==
    \E a \in Addr :
        /\ name[a] = "bo"
        /\ \A b \in Addr \ {a} : name[b] = "" /\ pc[b] \notin InSetNameArm
        /\ history = << <<"al", "hi">>, <<"bo", "hi">> >>
        /\ queue[a] = <<>>
        /\ PairsOf(SelectSeq(wire[a], IsUserMessage)) = history


\* ---------------------------------------------------------------- C21
\* peer.next() returns to handler a: something leaves its queue or its
\* transport, or the handler leaves the top of its loop.
Polled(a) ==
    /\ pc[a] = "next"
    /\ \/ Len(queue'[a]) < Len(queue[a])
       \/ Len(inbox'[a]) < Len(inbox[a])
       \/ pc'[a] # "next"

\* C21: the queue has priority.  When peer.next() returns to a handler whose
\* queue holds an item, the event returned is the head of the queue, which is
\* taken off it, and the transport is left as it is, a pending line included;
\* a line of the transport is returned, decoded, only when the queue is empty.
C21_QueuePriority ==
    [][\A a \in Addr : Polled(a) =>
        IF queue[a] # <<>>
        THEN /\ cur'[a] = Head(queue[a])
             /\ inbox'[a] = inbox[a]
             /\ (queue'[a] = Tail(queue[a]) \/ pc'[a] = "failed")
        ELSE /\ queue'[a] = <<>>
             /\ inbox[a] # <<>> =>
                    /\ cur'[a] = Decode(Head(inbox[a]))
                    /\ inbox'[a] = Tail(inbox[a])]_vars

\* A handler has just taken the welcome from its queue and written it, with
\* a line of its client pending on the transport all the while: the queue
\* holds the user list and the line is still there.
C21_Witness ==
    \E a \in Addr :
        /\ pc[a] = "next"
        /\ conn[a] = "open"
        /\ cur[a] = FromServer(ServerMessage(WelcomeText("al")))
        /\ wire[a] = <<ServerName(ServerDisplayName),
                       ServerMessage(WelcomeText("al"))>>
        /\ queue[a] = <<FromServer(UserList({<<"al", a>>}))>>
        /\ inbox[a] = <<SendMessageLine("hi")>>


\* ---------------------------------------------------------------- C22
\* The handler tasks are scheduled, but a write made with the lock held
\* completes only when the client lets it: no step is promised to a handler
\* that waits for that write.
StallSpec ==
    Spec /\ \A a \in Addr : WF_vars(HandlerStep(a) /\ pc[a] # "send_servername")

\* The events a broadcast pushes onto a queue.
QueueItems ==
    {FromPeer(u, m) : u \in UserNames, m \in Texts}
        \cup {FromServer(ServerMessage(WelcomeText(n))) : n \in UserNames}
        \cup {FromServer(ServerMessage(LeftText(n))) : n \in UserNames \cup {""}}
        \cup {FromServer(UserList(us)) : us \in SUBSET (UserNames \X Addr)}

\* C22 (as claimed): internal notices reach a silent client.  Every item
\* pushed onto the queue of a session is in the end taken by its handler and
\* written to its transport, unless its connection goes away or its own
\* client is the one that holds up a write, whether or not its client sends
\* another line and whatever the other clients do.
C22_NoticesDelivered ==
    \A b \in Addr : \A x \in QueueItems :
        InSeq(queue[b], x) ~> \/ InSeq(wire[b], ToCommand(x))
                              \/ conn[b] = "closed"
                              \/ pc[b] = "send_servername"


\* ---------------------------------------------------------------- C23
\* Clients that keep renaming themselves and read what they are written: no
\* connection closes and no message is sent, so the history stays as it is
\* and a behaviour can go on for ever.  Here wire[a] holds the commands
\* written to a's transport that its client has not read yet.
MaxLoad == 2

RenameLines == {SetNameLine(n) : n \in UserNames}

\* The client of a writes a line when its last one has been taken and no
\* session has MaxLoad commands queued or unread.
FloodSend(a, line) ==
    /\ pc[a] # "idle"
    /\ conn[a] = "open"
    /\ inbox[a] = <<>>
    /\ \A p \in Addr : Len(queue[p]) + Len(wire[p]) < MaxLoad
    /\ inbox' = [inbox EXCEPT ![a] = Append(@, line)]
    /\ UNCHANGED <<pc, name, cur, peers, history, queue, lock, conn, wire, nsent>>

\* The client of a reads the first command written to it.
ClientRead(a) ==
    /\ wire[a] # <<>>
    /\ wire' = [wire EXCEPT ![a] = Tail(@)]
    /\ UNCHANGED <<pc, name, cur, peers, history, queue, lock, inbox, conn, nsent>>

\* The steps of a handler whose connection stays open and whose client only
\* renames itself.
FloodHandlerStep(a) ==
    \/ Register(a)
    \/ Recv(a)
    \/ SetName(a)
    \/ ServerNameOk(a)

FloodNext ==
    \/ \E a \in Addr : Accept(a)
    \/ \E a \in Addr, line \in RenameLines : FloodSend(a, line)
    \/ \E a \in Addr : ClientRead(a)
    \/ \E a \in Addr : FloodHandlerStep(a)

FloodSpec == Init /\ [][FloodNext]_vars

\* Every handler task that can take a step is scheduled, and its writes
\* complete.
FloodFairSpec == FloodSpec /\ \A a \in Addr : WF_vars(FloodHandlerStep(a))

\* C23 (as claimed): the merge is fair to the transport.  A line of a client
\* that is pending on its session's transport is in the end returned to its
\* handler, even while other sessions keep pushing broadcasts onto that
\* session's queue.
C23_NetworkNotStarved ==
    \A b \in Addr : (inbox[b] # <<>>) ~> (inbox[b] = <<>>)


\* ---------------------------------------------------------------- C24
\* What a step pushes onto the queue of c.
Pushed(c) == SubSeq(queue'[c], Len(queue[c]) + 1, Len(queue'[c]))

\* C24: registration precedes consumption.  A handler that is in its loop,
\* or past it on the way to its teardown, has its record in the Registry, and
\* a handler that has not registered yet has pulled no event and has nothing
\* queued; whatever a step pushes onto the queue of one session it pushes
\* onto the queue of every session that is registered and whose handler has
\* not returned, one that has pulled nothing yet included; and what is queued
\* stays queued, in place, until the session's own handler takes it from the
\* head or returns.
C24_RegisteredBeforeConsuming ==
    /\ [](\A a \in Addr :
            /\ RxOpen(a) => a \in DOMAIN peers
            /\ pc[a] \in {"idle", "register"} =>
                    /\ cur[a] = NoEvent /\ queue[a] = <<>> /\ wire[a] = <<>>
                    /\ a \notin DOMAIN peers)
    /\ [][\A c \in Addr : Len(queue'[c]) > Len(queue[c]) =>
            \A b \in Listening \cap DOMAIN peers' :
                queue'[b] = queue[b] \o Pushed(c)]_vars
    /\ [][\A b \in Addr : queue'[b] # queue[b] =>
            \/ /\ Len(queue'[b]) > Len(queue[b])
               /\ SubSeq(queue'[b], 1, Len(queue[b])) = queue[b]
            \/ /\ pc[b] = "next" /\ queue[b] # <<>>
               /\ queue'[b] = Tail(queue[b]) /\ cur'[b] = Head(queue[b])
            \/ Ends(b)]_vars

\* A session that has registered and pulled nothing yet has the welcome and
\* the user list of another session's naming on its queue.
C24_Witness ==
    \E a \in Addr : \E b \in Addr \ {a} :
        /\ pc[b] = "next" /\ cur[b] = NoEvent /\ wire[b] = <<>>
        /\ name[a] = "al"
        /\ queue[b] = <<FromServer(ServerMessage(WelcomeText("al"))),
                        FromServer(UserList({<<"al", a>>}))>>


\* ---------------------------------------------------------------- C25
\* The peers that are registered and whose receiver is gone.
ClosedPeers == {d \in DOMAIN peers : ~ RxOpen(d)}

\* Handler a runs a critical section, all of which broadcast.
BroadcastStep(a) ==
    /\ pc[a] \in {"lock_setname", "send_servername", "lock_sendmsg", "release"}
    /\ pc'[a] # pc[a]

\* C25: a push to a peer whose receiver is gone is dropped in silence.
\* Nothing is ever queued for a handler that has returned.  When a handler
\* runs a critical section with such a peer in the Registry, that peer's queue
\* and handler are left as they are, every registered peer whose handler has
\* not returned is pushed what the step pushes, and the broadcasting handler,
\* if its own connection is open, goes on in its loop (or, from its teardown,
\* returns as usual), a SendMessage being appended to the history as ever.
\* And a handler returns only when its own connection is closed.
C25_ClosedPeerPushDropped ==
    /\ [](\A d \in Addr : pc[d] \in {"failed", "done"} => queue[d] = <<>>)
    /\ [][\A a \in Addr : (BroadcastStep(a) /\ ClosedPeers \ {a} # {}) =>
            /\ \A d \in ClosedPeers \ {a} :
                    queue'[d] = queue[d] /\ pc'[d] = pc[d] /\ wire'[d] = wire[d]
            /\ conn[a] = "open" =>
                    pc'[a] = CASE pc[a] = "release" -> "done"
                               [] pc[a] = "lock_setname" /\ name[a] = ""
                                    -> "send_servername"
                               [] OTHER -> "next"
            /\ pc[a] = "lock_sendmsg" =>
                    /\ history' = Append(history, <<name[a], cur[a][2][2]>>)
                    /\ \A b \in Listening :
                        queue'[b] = Append(queue[b],
                                           FromPeer(name[a], cur[a][2][2]))
            /\ pc[a] = "release" =>
                    \A b \in Listening \ {a} : Len(queue'[b]) = Len(queue[b]) + 2
            /\ pc[a] = "lock_setname" =>
                    \A b \in Listening : Len(queue'[b]) = Len(queue[b]) + 1]_vars
    /\ [][\A b \in Addr : Ends(b) =>
            /\ conn[b] = "closed"
            /\ \A c \in Addr \ {b} : pc'[c] = pc[c]]_vars

\* The handler of one session has returned on a failed write, leaving its
\* record in the Registry; another session, named, has sent a message and
\* been written its own copy, and is in its loop.
C25_Witness ==
    \E a \in Addr : \E d \in Addr \ {a} :
        /\ pc[d] = "failed" /\ d \in DOMAIN peers
        /\ cur[d] = ErrEvent("NetworkError") /\ wire[d] = <<>>
        /\ pc[a] = "next" /\ name[a] = "al" /\ conn[a] = "open"
        /\ queue[a] = <<>>
        /\ history = << <<"al", "hi">> >>
        /\ cur[a] = FromPeer("al", "hi")
        /\ wire[a][Len(wire[a])] = UserMessage("al", "hi")


\* ---------------------------------------------------------------- C26
\* The peer messages of a sequence of queued events, in place.
PeerEvents(q) == SelectSeq(q, IsFromPeer)

\* C26: a message carries the name its sender had when it was handled.  The
\* step that handles SendMessage(m) for session a appends (n, m) to the
\* history and pushes FromPeer(n, m), n being a's local name, which is the
\* name of its Registry record then; a step of the SetName arm changes neither
\* the history, nor a peer message that is queued, nor what has been written;
\* and the handler that takes FromPeer(u, m) from its queue writes
\* UserMessage(u, m), whatever the sender is called by then.
C26_NameAtSendTime ==
    /\ [][\A a \in Addr : SendStep(a) =>
            LET n == name[a]
                m == cur[a][2][2]
            IN /\ n # "" /\ n = peers[a]
               /\ cur[a] = FromClient(SendMessageLine(m))
               /\ history'[Len(history')] = <<n, m>>
               /\ \A b \in Listening :
                    queue'[b][Len(queue'[b])] = FromPeer(n, m)]_vars
    /\ [][\A a \in Addr : (pc[a] \in InSetNameArm /\ pc'[a] # pc[a]) =>
            /\ history' = history
            /\ \A b \in Addr :
                /\ SubSeq(wire'[b], 1, Len(wire[b])) = wire[b]
                /\ SelectSeq(wire'[b], IsUserMessage) = SelectSeq(wire[b], IsUserMessage)
                /\ (PeerEvents(queue'[b]) = PeerEvents(queue[b])
                        \/ (b = a /\ pc'[a] = "failed"))]_vars
    /\ [][\A b \in Addr : \A u \in UserNames : \A m \in Texts :
            (Polled(b) /\ queue[b] # <<>> /\ Head(queue[b]) = FromPeer(u, m)
                /\ pc'[b] # "failed") =>
                wire'[b] = Append(wire[b], UserMessage(u, m))]_vars

\* A session has sent "hi" as "al" and renamed itself "bo" while its message
\* was still queued for another session: the message queued, and the history,
\* still say "al", ahead of the user list that says "bo".
C26_Witness ==
    \E a \in Addr : \E b \in Addr \ {a} :
        /\ a \in DOMAIN peers /\ peers[a] = "bo" /\ name[a] = "bo"
        /\ pc[b] = "next" /\ name[b] = ""
        /\ history = << <<"al", "hi">> >>
        /\ Len(queue[b]) >= 2
        /\ queue[b][Len(queue[b]) - 1] = FromPeer("al", "hi")
        /\ queue[b][Len(queue[b])] = FromServer(UserList({<<"bo", a>>}))


\* ---------------------------------------------------------------- C27
\* The registered sessions with no name whose handler has not returned.
UnnamedListening == {b \in Listening : peers[b] = "" /\ name[b] = ""}

\* C27: the naming gate restricts sending only.  Whatever a step pushes onto
\* the queue of a session (peer message, welcome, departure notice, user list)
\* it pushes onto the queue of every registered session with no name whose
\* handler has not returned; and the handler of a session with no name that
\* takes an event from its queue writes it to its client, a FromPeer(u, m) as
\* UserMessage(u, m) and a notice of the server as it is, and stays in its
\* loop with no name.
C27_UnnamedStillReceives ==
    /\ [][\A c \in Addr : Len(queue'[c]) > Len(queue[c]) =>
            \A b \in UnnamedListening \cap DOMAIN peers' :
                /\ Len(queue'[b]) = Len(queue[b]) + Len(Pushed(c))
                /\ Pushed(b) = Pushed(c)]_vars
    /\ [][\A b \in Addr :
            (Polled(b) /\ name[b] = "" /\ queue[b] # <<>> /\ pc'[b] # "failed") =>
                /\ wire'[b] = Append(wire[b],
                        IF Head(queue[b])[1] = "FromPeer"
                        THEN UserMessage(Head(queue[b])[2], Head(queue[b])[3])
                        ELSE Head(queue[b])[2])
                /\ pc'[b] = "next" /\ name'[b] = ""]_vars

\* A session that never set a name has been written the welcome of another
\* session, the user list, that session's message, and then its departure
\* notice and the user list without it.
C27_Witness ==
    \E a \in Addr : \E b \in Addr \ {a} :
        /\ name[b] = "" /\ b \in DOMAIN peers /\ peers[b] = ""
        /\ cur[b][1] = "FromServer" /\ pc[b] = "next"
        /\ pc[a] = "done"
        /\ wire[b] = <<ServerMessage(WelcomeText("al")),
                       UserList({<<"al", a>>}),
                       UserMessage("al", "hi"),
                       ServerMessage(LeftText("al")),
                       UserList({})>>


\* ---------------------------------------------------------------- C28
\* C28: the teardown of a session that never set a name gives notice too.
\* It pushes onto the queue of every remaining session whose handler has not
\* returned the ServerMessage " left.", the name being empty, and right
\* behind it a user list; and the remaining session that takes that notice
\* from its queue writes it as it is.
C28_UnnamedDepartureNotice ==
    /\ [][\A a \in Addr : (ReleaseStep(a) /\ name[a] = "") =>
            \A b \in Listening \ {a} :
                /\ Len(queue'[b]) = Len(queue[b]) + 2
                /\ SubSeq(queue'[b], 1, Len(queue[b])) = queue[b]
                /\ queue'[b][Len(queue[b]) + 1] =
                        FromServer(ServerMessage(" left."))
                /\ queue'[b][Len(queue[b]) + 2][1] = "FromServer"
                /\ queue'[b][Len(queue[b]) + 2][2][1] = "UserList"]_vars
    /\ [][\A b \in Addr :
            (Polled(b) /\ queue[b] # <<>>
                /\ Head(queue[b]) = FromServer(ServerMessage(" left."))
                /\ pc'[b] # "failed") =>
                wire'[b] = Append(wire[b], ServerMessage(" left."))]_vars

\* A session has closed without ever setting a name: the last things
\* written to session "al" are " left." and the user list with "al" alone.
C28_Witness ==
    \E a \in Addr : \E b \in Addr \ {a} :
        /\ pc[a] = "done" /\ name[a] = "" /\ wire[a] = <<>>
        /\ b \in Listening /\ name[b] = "al"
        /\ Len(wire[b]) >= 2
        /\ wire[b][Len(wire[b]) - 1] = ServerMessage(" left.")
        /\ wire[b][Len(wire[b])] = UserList({<<"al", b>>})


\* ---------------------------------------------------------------- C29
\* Handler a is at the top of its loop, waiting in peer.next().
AtLoopTop(a) == pc[a] = "next"

\* C29: the local name and the Registry agree.  Whenever a handler is at
\* the top of its loop its record is in the Registry with the handler's local
\* name for username, so the username is empty exactly while the handler is
\* Unnamed; and the username of a record, once it is not empty, is never
\* empty again for as long as the record is there.
C29_LocalNameIsRegistryName ==
    /\ [](\A a \in Addr : AtLoopTop(a) =>
            /\ a \in DOMAIN peers
            /\ peers[a] = name[a]
            /\ (peers[a] = "" <=> name[a] = ""))
    /\ [][\A a \in DOMAIN peers \cap DOMAIN peers' :
            peers[a] # "" => peers'[a] # ""]_vars

\* A session has just renamed itself from "al" to "bo": it is back at the
\* top of its loop, its local name and its record say "bo", and the user list
\* of the rename is on its queue.
C29_Witness ==
    \E a \in Addr :
        /\ AtLoopTop(a)
        /\ cur[a] = FromClient(SetNameLine("bo"))
        /\ a \in DOMAIN peers /\ peers[a] = "bo" /\ name[a] = "bo"
        /\ InSeq(wire[a], ServerMessage(WelcomeText("al")))
        /\ queue[a] = <<FromServer(UserList({<<"bo", a>>}))>>


\* ---------------------------------------------------------------- C30
\* Handler a leaves its loop: the stream has ended, or a write has failed.
LeavesLoop(a) == pc[a] = "next" /\ pc'[a] \in {"release", "failed"}

\* What is left on a's queue once peer.next() has returned.
Untaken(a) == IF queue[a] # <<>> THEN Tail(queue[a]) ELSE <<>>

\* C30 (as claimed): a handler whose transport has ended takes every item of
\* its queue before it leaves its loop: it never leaves with an item it has
\* not taken.
C30_DrainsBeforeLeaving ==
    [][\A a \in Addr : LeavesLoop(a) => Untaken(a) = <<>>]_vars

\* C30 (amended): Closed is returned only by a poll that finds the queue
\* empty, after every line of the transport too; with the transport ended and
\* items on the queue, the handler takes the head and tries to write it, and
\* goes on in its loop if the write succeeds; a handler leaves its loop in two
\* ways only, on Closed with its queue empty, or on a write that fails, its
\* connection being closed, and then it returns at once, with what is left on
\* its queue not taken.
C30_ClosedOnlyWhenQueueEmpty ==
    /\ [][\A a \in Addr : (pc[a] = "next" /\ pc'[a] = "release") =>
            /\ queue[a] = <<>> /\ inbox[a] = <<>> /\ conn[a] = "closed"
            /\ cur'[a] = Closed /\ wire'[a] = wire[a]]_vars
    /\ [][\A a \in Addr : (Polled(a) /\ conn[a] = "closed" /\ queue[a] # <<>>) =>
            /\ cur'[a] = Head(queue[a])
            /\ \/ /\ pc'[a] = "next"
                  /\ Len(wire'[a]) = Len(wire[a]) + 1
                  /\ queue'[a] = Tail(queue[a])
               \/ /\ pc'[a] = "failed"
                  /\ wire'[a] = wire[a]]_vars
    /\ [][\A a \in Addr : (pc[a] = "next" /\ pc'[a] = "failed") =>
            /\ conn[a] = "closed"
            /\ cur'[a][1] \in {"FromPeer", "FromServer", "Err"}
            /\ queue'[a] = <<>> /\ wire'[a] = wire[a]]_vars
    /\ [][\A a \in Addr : (pc[a] = "next" /\ pc'[a] # "next") =>
            pc'[a] \in {"release", "failed", "lock_setname", "lock_sendmsg"}]_vars

\* A handler whose connection is closed has taken its own welcome from its
\* queue, failed to write it and returned: the user list that was queued
\* behind the welcome was never taken.
C30_Witness ==
    \E a \in Addr :
        /\ pc[a] = "failed" /\ conn[a] = "closed"
        /\ cur[a] = FromServer(ServerMessage(WelcomeText("al")))
        /\ wire[a] = <<ServerName(ServerDisplayName)>>
        /\ name[a] = "al"

====
